---- MODULE Spec2Model ----
(***************************************************************************)
(* Inference Broker (src/gpu_server_api_with_queue.py) and Client Wrapper  *)
(* (src/client.py, src/neurons/miner_new.py) of the streetvision subnet.   *)
(*                                                                         *)
(* Spec      : one Broker process: the /predict handlers on the event loop,*)
(*             the worker thread, the job queue, the Cache Store and the   *)
(*             shutdown hook.                                              *)
(* FairSpec  : Spec with the fairness the threads' scheduling gives.       *)
(* SpecClient: one call of predict_with_cache against a scripted Broker.   *)
(* SpecReward: one call of get_rewards (src/natix/validator/reward.py) on a  *)
(*             performance tracker.                                        *)
(***************************************************************************)
EXTENDS Integers, Sequences, FiniteSets, TLC

\* ---------------------------------------------------------------- bounds
\* Inbound /predict requests (connections) over the life of the process.
NumRequests == 3
\* Distinct uploads: images 1..NumImages-1 decode, image NumImages does not.
NumImages == 2

\* The largest max_retries a caller passes to predict_with_cache.
MaxRetries == 3

\* The longest sequence passed to get_rewards.
MaxBatch == 2

Requests == 1..NumRequests
Images == 1..NumImages

\* Miner UIDs and hotkeys.
Uids == {7, 8}
Hotkeys == {"A", "B"}

\* ------------------------------------------------------------ pure parts
\* Python's None, and what Redis GET answers for an absent key.
None == <<>>

\* hashlib.sha256(image_bytes).hexdigest(): injective on the uploads modelled.
hash_image_bytes(b) == (7 * b) % 11

Fingerprints == {hash_image_bytes(b) : b \in Images}

\* Image.open(...) raises on bytes that are no image.
Undecodable == {NumImages}

\* What run_inference does for upload b: raise, or the softmax probability
\* (in billionths, the unit of every probability here).
run_inference(b) == IF b \in Undecodable
                    THEN [raised |-> TRUE, prob |-> 0]
                    ELSE [raised |-> FALSE, prob |-> (100 * b + 50) * 1000000]

\* redis-py stores a float as the bytes of its repr; float() parses them back.
to_bytes(p) == <<"repr", p>>
float(c) == c[2]

\* `if cached:` is true for any non-empty bytes value.
Truthy(c) == c /= None /\ Len(c) > 0

\* The dict built at lines 91-96.
NewJob(h, b) == [image_hash |-> h, image_bytes |-> b,
                 result_event |-> FALSE, result |-> None]

\* Response bodies and statuses of /predict.
HitResponse(p) == [status |-> 200,
                   body |-> [from_cache |-> TRUE, probability |-> p]]
FreshResponse(p) == [status |-> 200,
                     body |-> [from_cache |-> FALSE, probability |-> p]]
TimeoutResponse == [status |-> 504, body |-> [error |-> "Inference timeout"]]
\* job["result"]["probability"] on a None result raises: the framework's 500.
CrashResponse == [status |-> 500, body |-> [detail |-> "Internal Server Error"]]

\* Two worker threads on the one queue.
WorkersTwo == {1, 2}

\* The worker threads started at import.
Workers == {1}

VARIABLES
  rdb,        \* the Broker's Cache Store: fingerprint -> bytes or None
  job_queue,  \* Queue(): FIFO of jobs (by the id of the request that made each)
  stop_event, \* Event()
  jobs,       \* the job dicts made so far, by request
  hpc,        \* each request handler's position
  himg,       \* each request's upload (0 before it is submitted)
  resp,       \* the responses produced so far, by request
  loop,       \* the handler running on the event loop (0: none)
  hook,       \* the shutdown hook: "idle", "joining", "joined"
  wpc,        \* each worker thread's position
  wjob,       \* the job each worker holds (0: none)
  wprob,      \* the worker's local `prob`
  calls,      \* history: run_inference invocations per upload
  fresh       \* history: the jobs the worker ran inference for

\* One call of predict_with_cache (src/client.py; src/neurons/miner_new.py holds
\* the same function with another Broker address).
VARIABLES
  local_rdb,   \* the client's local Redis: fingerprint -> bytes or None
  local_rdb0,  \* input: the local Redis before the call
  cpc,         \* "unused", "start", "loop", "returned", "raised"
  cimg,        \* input: image_bytes
  max_retries, \* input
  script,      \* input: what the Broker (or the transport) answers to the
               \* 1st, 2nd, ... request
  readUp,      \* input: the local Redis answers the GET of line 18
  writeUp,     \* input: the local Redis accepts the SET of line 36
  attempt,     \* the loop variable
  posts,       \* history: requests.post calls made
  cret         \* the value returned

\* One call of get_rewards (src/natix/validator/reward.py) on the tracker of
\* the "image" modality.
VARIABLES
  tracker,       \* performance_trackers["image"]: hotkeys and histories by UID
  tracker0,      \* input: the tracker before the call
  gpc,           \* "unused", "idle", "loop", "returned", "raised"
  label,         \* input
  len_responses, \* input: len(responses)
  len_uids,      \* input: len(uids)
  len_axons,     \* input: len(axons)
  responses,     \* input: the predictions the loop has taken so far
  uids,          \* input: the UIDs the loop has taken so far
  axons,         \* input: the hotkeys of the axons the loop has taken so far
  faultAt,       \* input: the pass of the loop in which a call raises (0: none)
  faultKind,     \* input: the call that raises there
  metrics_100,   \* the local of that name, unbound until line 81 first runs
  miner_rewards, \* the list of that name
  miner_metrics, \* the list of that name
  miner_excs     \* history: whether the except clause ran, per pass

\* The deployment of src/neurons/miner_new.py: the client runs on the Broker's
\* host, and its rdb (localhost:6379, db 0) is the Broker's Cache Store.
VARIABLES
  client_sets, \* history: the SETs clients have sent to the Cache Store
  peer_jobs    \* a second Broker process on the same Cache Store: the uploads
               \* its worker holds between its re-check and its SET

\* One call of Miner.forward_image (src/neurons/miner.py, miner_new.py).
VARIABLES
  fpc,            \* "unused", "start", "logged", "calling", "returned", "raised"
  handler,        \* input: the file whose forward_image runs
  image_detector, \* input: self.image_detector is not None
  log_raises,     \* input: a statement in _log_sender_info's try block raises
  b64_ok,         \* input: synapse.image is valid base64
  synapse_image,  \* input: the bytes synapse.image decodes to
  prediction      \* synapse.prediction: <<>> while it has the value it came
                  \* with, <<p>> once the handler has assigned p

\* A sequential client of the Broker that keeps its own local Redis
\* (src/client.py: the Broker is on another host).
VARIABLES
  client_seen, \* history: the requests whose responses the client has
               \* handled, or did not wait for (or that other clients sent)
  client_hits  \* history: the fingerprints the client has been answered
               \* from_cache = true for

bvars == <<rdb, job_queue, stop_event, jobs, hpc, himg, resp, loop, hook,
           wpc, wjob, wprob, calls, fresh>>

cvars == <<local_rdb, local_rdb0, cpc, cimg, max_retries, script, readUp,
           writeUp, attempt, posts, cret>>

rvars == <<tracker, tracker0, gpc, label, len_responses, len_uids, len_axons,
           responses, uids, axons, faultAt, faultKind, metrics_100,
           miner_rewards, miner_metrics, miner_excs>>

svars == <<client_sets, peer_jobs>>

mvars == <<fpc, handler, image_detector, log_raises, b64_ok, synapse_image,
           prediction>>

tvars == <<client_seen, client_hits>>

vars == <<bvars, cvars, rvars, svars, mvars, tvars>>

InitBroker ==
  /\ rdb = [h \in Fingerprints |-> None]
  /\ job_queue = <<>>
  /\ stop_event = FALSE
  /\ jobs = <<>>
  /\ hpc = [r \in Requests |-> "new"]
  /\ himg = [r \in Requests |-> 0]
  /\ resp = <<>>
  /\ loop = 0
  /\ hook = "idle"
  /\ wpc = [w \in Workers |-> "top"]
  /\ wjob = [w \in Workers |-> 0]
  /\ wprob = [w \in Workers |-> 0]
  /\ calls = [b \in Images |-> 0]
  /\ fresh = {}

\* ------------------------------------------------- /predict (lines 79-108)
\* A client sends request r with upload b; the handler is scheduled on the
\* event loop once `await file.read()` has the bytes.
Submit(r, b) ==
  /\ hook = "idle"
  /\ hpc[r] = "new"
  /\ \A q \in Requests : q < r => hpc[q] /= "new"
  /\ himg' = [himg EXCEPT ![r] = b]
  /\ hpc' = [hpc EXCEPT ![r] = "pending"]
  /\ UNCHANGED cvars
  /\ UNCHANGED rvars
  /\ UNCHANGED svars
  /\ UNCHANGED <<mvars, tvars>>
  /\ UNCHANGED <<rdb, job_queue, stop_event, jobs, resp, loop, hook,
                 wpc, wjob, wprob, calls, fresh>>

\* Line 86: the handler's test of the value rdb.get returned.
HandlerCacheHit(cached) == Truthy(cached)

\* Lines 82-87: hash, look up the Cache Store, answer a hit at once. The
\* handler is a coroutine with no await after line 81: from here to its return
\* it holds the event loop, and no other handler runs.
HandlerCheck(r) ==
  /\ hook = "idle"
  /\ hpc[r] = "pending"
  /\ loop = 0
  /\ LET cached == rdb[hash_image_bytes(himg[r])] IN
       IF HandlerCacheHit(cached)
       THEN /\ resp' = resp @@ (r :> HitResponse(float(cached)))
            /\ hpc' = [hpc EXCEPT ![r] = "done"]
            /\ loop' = 0
       ELSE /\ hpc' = [hpc EXCEPT ![r] = "put"]
            /\ loop' = r
            /\ resp' = resp
  /\ UNCHANGED cvars
  /\ UNCHANGED rvars
  /\ UNCHANGED svars
  /\ UNCHANGED <<mvars, tvars>>
  /\ UNCHANGED <<rdb, job_queue, stop_event, jobs, himg, hook,
                 wpc, wjob, wprob, calls, fresh>>

\* Lines 90-99: build the job and put it on the queue.
HandlerPut(r) ==
  /\ hpc[r] = "put"
  /\ jobs' = jobs @@ (r :> NewJob(hash_image_bytes(himg[r]), himg[r]))
  /\ job_queue' = Append(job_queue, r)
  /\ hpc' = [hpc EXCEPT ![r] = "wait"]
  /\ UNCHANGED cvars
  /\ UNCHANGED rvars
  /\ UNCHANGED svars
  /\ UNCHANGED <<mvars, tvars>>
  /\ UNCHANGED <<rdb, stop_event, himg, resp, loop, hook,
                 wpc, wjob, wprob, calls, fresh>>

\* Line 108: the body of the answer to a woken submitter.
WokenResponse(job) ==
  IF job.result = None THEN CrashResponse
  ELSE FreshResponse(job.result[1].probability)

\* Lines 102, 108: result_event.wait returned True.
HandlerWake(r) ==
  /\ hpc[r] = "wait"
  /\ jobs[r].result_event
  /\ resp' = resp @@ (r :> WokenResponse(jobs[r]))
  /\ hpc' = [hpc EXCEPT ![r] = "done"]
  /\ loop' = 0
  /\ UNCHANGED cvars
  /\ UNCHANGED rvars
  /\ UNCHANGED svars
  /\ UNCHANGED <<mvars, tvars>>
  /\ UNCHANGED <<rdb, job_queue, stop_event, jobs, himg, hook,
                 wpc, wjob, wprob, calls, fresh>>

\* A worker at the loop test or blocked in job_queue.get(timeout=1).
WorkerIdle(w) == wpc[w] \in {"top", "get"}

\* Job j is on the queue.
Queued(j) == \E i \in 1..Len(job_queue) : job_queue[i] = j

\* Lines 102-105: result_event.wait(timeout=60) returned False. The handler
\* answers 504 and leaves its job where it is. The 60 s of the wait outlast
\* an idle worker's way from the loop test to a queued job (get returns at
\* once when the queue holds one), so the wait does not run out on a job that
\* is queued before an idle worker: it runs out while the job is being
\* processed, or queued with every worker busy or ended.
HandlerTimeout(r) ==
  /\ hpc[r] = "wait"
  /\ ~jobs[r].result_event
  /\ ~(Queued(r) /\ \E w \in Workers : WorkerIdle(w))
  /\ resp' = resp @@ (r :> TimeoutResponse)
  /\ hpc' = [hpc EXCEPT ![r] = "done"]
  /\ loop' = 0
  /\ UNCHANGED cvars
  /\ UNCHANGED rvars
  /\ UNCHANGED svars
  /\ UNCHANGED <<mvars, tvars>>
  /\ UNCHANGED <<rdb, job_queue, stop_event, jobs, himg, hook,
                 wpc, wjob, wprob, calls, fresh>>

\* ------------------------------------------ inference_worker (lines 51-71)
\* A loop that does not look at the stop event.
LoopTestAlways(stop) == TRUE

\* Line 52: while not stop_event.is_set().
LoopTest(stop) == ~stop

\* Line 52: the loop test; the thread ends when it fails.
WorkerTest(w) ==
  /\ wpc[w] = "top"
  /\ wpc' = [wpc EXCEPT ![w] = IF LoopTest(stop_event) THEN "get" ELSE "exited"]
  /\ UNCHANGED cvars
  /\ UNCHANGED rvars
  /\ UNCHANGED svars
  /\ UNCHANGED <<mvars, tvars>>
  /\ UNCHANGED <<rdb, job_queue, stop_event, jobs, hpc, himg, resp, loop, hook,
                 wjob, wprob, calls, fresh>>

\* Line 54: job_queue.get returned a job.
WorkerGet(w) ==
  /\ wpc[w] = "get"
  /\ job_queue /= <<>>
  /\ wjob' = [wjob EXCEPT ![w] = Head(job_queue)]
  /\ job_queue' = Tail(job_queue)
  /\ wpc' = [wpc EXCEPT ![w] = "check"]
  /\ UNCHANGED cvars
  /\ UNCHANGED rvars
  /\ UNCHANGED svars
  /\ UNCHANGED <<mvars, tvars>>
  /\ UNCHANGED <<rdb, stop_event, jobs, hpc, himg, resp, loop, hook,
                 wprob, calls, fresh>>

\* Lines 54-56: job_queue.get(timeout=1) raised Empty; loop again.
WorkerPoll(w) ==
  /\ wpc[w] = "get"
  /\ job_queue = <<>>
  /\ wpc' = [wpc EXCEPT ![w] = "top"]
  /\ UNCHANGED cvars
  /\ UNCHANGED rvars
  /\ UNCHANGED svars
  /\ UNCHANGED <<mvars, tvars>>
  /\ UNCHANGED <<rdb, job_queue, stop_event, jobs, hpc, himg, resp, loop, hook,
                 wjob, wprob, calls, fresh>>

\* A worker that never finds its re-check answered.
WorkerCacheHitNever(cached) == FALSE

\* Line 63: the worker's test of the value its re-check got.
WorkerCacheHit(cached) == Truthy(cached)

\* Lines 58-66: re-check the Cache Store; on a miss enter run_inference.
WorkerRecheck(w) ==
  /\ wpc[w] = "check"
  /\ LET job == jobs[wjob[w]]
         cached == rdb[job.image_hash] IN
       IF WorkerCacheHit(cached)
       THEN /\ wprob' = [wprob EXCEPT ![w] = float(cached)]
            /\ wpc' = [wpc EXCEPT ![w] = "result"]
            /\ UNCHANGED <<calls, fresh>>
       ELSE /\ wpc' = [wpc EXCEPT ![w] = "infer"]
            /\ calls' = [calls EXCEPT ![job.image_bytes] = @ + 1]
            /\ fresh' = fresh \cup {wjob[w]}
            /\ wprob' = wprob
  /\ UNCHANGED cvars
  /\ UNCHANGED rvars
  /\ UNCHANGED svars
  /\ UNCHANGED <<mvars, tvars>>
  /\ UNCHANGED <<rdb, job_queue, stop_event, jobs, hpc, himg, resp, loop, hook,
                 wjob>>

\* Line 66: run_inference returns, or raises and ends the thread (nothing in
\* inference_worker catches it).
WorkerInfer(w) ==
  /\ wpc[w] = "infer"
  /\ LET out == run_inference(jobs[wjob[w]].image_bytes) IN
       IF out.raised
       THEN /\ wpc' = [wpc EXCEPT ![w] = "crashed"]
            /\ wprob' = wprob
       ELSE /\ wpc' = [wpc EXCEPT ![w] = "store"]
            /\ wprob' = [wprob EXCEPT ![w] = out.prob]
  /\ UNCHANGED cvars
  /\ UNCHANGED rvars
  /\ UNCHANGED svars
  /\ UNCHANGED <<mvars, tvars>>
  /\ UNCHANGED <<rdb, job_queue, stop_event, jobs, hpc, himg, resp, loop, hook,
                 wjob, calls, fresh>>

\* A worker that does not write the Cache Store.
StoreSetSkipped(store, h, p) == store

\* Line 67: rdb.set(image_hash, prob).
StoreSet(store, h, p) == [store EXCEPT ![h] = to_bytes(p)]

WorkerStore(w) ==
  /\ wpc[w] = "store"
  /\ rdb' = StoreSet(rdb, jobs[wjob[w]].image_hash, wprob[w])
  /\ wpc' = [wpc EXCEPT ![w] = "result"]
  /\ UNCHANGED cvars
  /\ UNCHANGED rvars
  /\ UNCHANGED svars
  /\ UNCHANGED <<mvars, tvars>>
  /\ UNCHANGED <<job_queue, stop_event, jobs, hpc, himg, resp, loop, hook,
                 wjob, wprob, calls, fresh>>

\* A worker that goes on to the signal without filling the result slot.
WorkerResultSkipped(w) ==
  /\ wpc[w] = "result"
  /\ wpc' = [wpc EXCEPT ![w] = "signal"]
  /\ UNCHANGED cvars
  /\ UNCHANGED rvars
  /\ UNCHANGED svars
  /\ UNCHANGED <<mvars, tvars>>
  /\ UNCHANGED <<rdb, job_queue, stop_event, jobs, hpc, himg, resp, loop, hook,
                 wjob, wprob, calls, fresh>>

\* Line 69: job["result"] = {"probability": prob}.
WorkerResult(w) ==
  /\ wpc[w] = "result"
  /\ jobs' = [jobs EXCEPT ![wjob[w]].result = <<[probability |-> wprob[w]]>>]
  /\ wpc' = [wpc EXCEPT ![w] = "signal"]
  /\ UNCHANGED cvars
  /\ UNCHANGED rvars
  /\ UNCHANGED svars
  /\ UNCHANGED <<mvars, tvars>>
  /\ UNCHANGED <<rdb, job_queue, stop_event, hpc, himg, resp, loop, hook,
                 wjob, wprob, calls, fresh>>

\* Lines 70-71: set the completion signal, task_done, back to the loop test.
WorkerSignal(w) ==
  /\ wpc[w] = "signal"
  /\ jobs' = [jobs EXCEPT ![wjob[w]].result_event = TRUE]
  /\ wpc' = [wpc EXCEPT ![w] = "top"]
  /\ wjob' = [wjob EXCEPT ![w] = 0]
  /\ UNCHANGED cvars
  /\ UNCHANGED rvars
  /\ UNCHANGED svars
  /\ UNCHANGED <<mvars, tvars>>
  /\ UNCHANGED <<rdb, job_queue, stop_event, hpc, himg, resp, loop, hook,
                 wprob, calls, fresh>>

\* --------------------------------------------- shutdown hook (lines 110-113)
\* The hook is a plain function run on the event loop once no handler runs:
\* it sets stop_event and blocks in worker_thread.join().
Shutdown ==
  /\ hook = "idle"
  /\ loop = 0
  /\ stop_event' = TRUE
  /\ hook' = "joining"
  /\ UNCHANGED cvars
  /\ UNCHANGED rvars
  /\ UNCHANGED svars
  /\ UNCHANGED <<mvars, tvars>>
  /\ UNCHANGED <<rdb, job_queue, jobs, hpc, himg, resp, loop,
                 wpc, wjob, wprob, calls, fresh>>

\* Line 113: join returns once the worker thread has ended.
JoinReturn ==
  /\ hook = "joining"
  /\ \A w \in Workers : wpc[w] \in {"exited", "crashed"}
  /\ hook' = "joined"
  /\ UNCHANGED cvars
  /\ UNCHANGED rvars
  /\ UNCHANGED svars
  /\ UNCHANGED <<mvars, tvars>>
  /\ UNCHANGED <<rdb, job_queue, stop_event, jobs, hpc, himg, resp, loop,
                 wpc, wjob, wprob, calls, fresh>>

HandlerStep ==
  \E r \in Requests :
    \/ HandlerCheck(r)
    \/ HandlerPut(r)
    \/ HandlerWake(r)
    \/ HandlerTimeout(r)

WorkerStep ==
  \E w \in Workers :
    \/ WorkerTest(w)
    \/ WorkerGet(w)
    \/ WorkerPoll(w)
    \/ WorkerRecheck(w)
    \/ WorkerInfer(w)
    \/ WorkerStore(w)
    \/ WorkerResult(w)
    \/ WorkerSignal(w)

\* The Broker alone: no client call is modelled.
ClientUnused ==
  /\ local_rdb = [h \in Fingerprints |-> None]
  /\ local_rdb0 = local_rdb
  /\ cpc = "unused"
  /\ cimg = 0
  /\ max_retries = 0
  /\ script = <<>>
  /\ readUp = TRUE
  /\ writeUp = TRUE
  /\ attempt = 0
  /\ posts = 0
  /\ cret = 0

\* A tracker that knows no miner.
EmptyTracker ==
  [miner_hotkeys |-> <<>>, history |-> [u \in Uids |-> <<>>]]

\* No call of get_rewards is modelled.
RewardUnused ==
  /\ tracker = EmptyTracker
  /\ tracker0 = tracker
  /\ gpc = "unused"
  /\ label = 0
  /\ len_responses = 0
  /\ len_uids = 0
  /\ len_axons = 0
  /\ responses = <<>>
  /\ uids = <<>>
  /\ axons = <<>>
  /\ faultAt = 0
  /\ faultKind = "none"
  /\ metrics_100 = None
  /\ miner_rewards = <<>>
  /\ miner_metrics = <<>>
  /\ miner_excs = <<>>

\* No client has written the Cache Store and no second Broker runs.
NoClientSets == client_sets = {} /\ peer_jobs = {}

\* No call of forward_image is modelled.
MinerUnused ==
  /\ fpc = "unused"
  /\ handler = "none"
  /\ image_detector = FALSE
  /\ log_raises = FALSE
  /\ b64_ok = TRUE
  /\ synapse_image = 0
  /\ prediction = <<>>

\* No client with a cache of its own has handled a response.
NoReceipts == client_seen = {} /\ client_hits = {}

Init ==
  InitBroker /\ ClientUnused /\ RewardUnused /\ NoClientSets /\ MinerUnused
  /\ NoReceipts

Next ==
  \/ \E r \in Requests, b \in Images : Submit(r, b)
  \/ HandlerStep
  \/ WorkerStep
  \/ Shutdown
  \/ JoinReturn

Spec == Init /\ [][Next]_vars

\* The worker thread and the event loop are scheduled whenever they can run:
\* a wait ends (signal or timeout), an inference call returns or raises.
\* worker_thread.join() returns once the thread has ended. Requests and the
\* shutdown are the environment's and may never come.
FairSpec ==
  Spec /\ WF_vars(WorkerStep) /\ WF_vars(HandlerStep) /\ WF_vars(JoinReturn)

\* ------------------------------- predict_with_cache (client.py, lines 14-49)
\* The value returned when every attempt failed: 0.999999999.
Sentinel == 999999999

\* What one requests.post can end in: a Timeout, another RequestException
\* raised by the transport, or a response delivered with a status and a body.
TransportTimeout == [kind |-> "timeout"]
TransportError == [kind |-> "connection_error"]
Delivered(x) == [kind |-> "response", status |-> x.status, body |-> x.body]

\* A 200 whose body carries an error field beside a probability.
ErrorBodyResponse ==
  [status |-> 200,
   body |-> [error |-> "busy", from_cache |-> FALSE, probability |-> 350000000]]
\* 200s whose bodies lack a field the client reads.
NoFromCacheResponse == [status |-> 200, body |-> [probability |-> 550000000]]
NoProbFreshResponse == [status |-> 200, body |-> [from_cache |-> FALSE]]
NoProbHitResponse == [status |-> 200, body |-> [from_cache |-> TRUE]]

\* The answers the scripted Broker draws from: the two responses the Broker of
\* this repository sends on success, its 504, and the other outcomes the client
\* code tells apart.
BrokerOutcomes ==
  { TransportTimeout, TransportError,
    Delivered(TimeoutResponse),
    Delivered(FreshResponse(150000000)),
    Delivered(HitResponse(250000000)),
    Delivered(ErrorBodyResponse),
    Delivered(NoFromCacheResponse),
    Delivered(NoProbFreshResponse),
    Delivered(NoProbHitResponse) }

\* How one pass of the loop body ends.
Continue == [ctl |-> "continue", write |-> FALSE, value |-> 0]
Break == [ctl |-> "break", write |-> FALSE, value |-> 0]
Raise == [ctl |-> "raise", write |-> FALSE, value |-> 0]
Return(w, p) == [ctl |-> "return", write |-> w, value |-> p]

\* Line 28: response.raise_for_status() raises HTTPError for 4xx and 5xx.
raise_for_status(status) == status >= 400

\* Lines 43-44: except Timeout: print, and on to the next attempt.
AfterTimeout == Continue

\* A client that retries after any RequestException.
AfterRequestExceptionRetry == Continue

\* Lines 45-47: except requests.RequestException: print, break.
AfterRequestException == Break

\* A client that writes its local Redis on every result it returns.
AcceptAlwaysWrite(body, storeUp) ==
  IF {"from_cache", "probability"} \subseteq DOMAIN body /\ storeUp
  THEN Return(TRUE, body.probability)
  ELSE Raise

\* Lines 35-41 for a body with both fields: write the local Redis on a fresh
\* result (the SET raises when the store is down), return the probability.
Accept(body, storeUp) ==
  IF "from_cache" \notin DOMAIN body THEN Raise
  ELSE IF ~body.from_cache
       THEN IF "probability" \notin DOMAIN body THEN Raise
            ELSE IF ~storeUp THEN Raise
            ELSE Return(TRUE, body.probability)
       ELSE IF "probability" \notin DOMAIN body THEN Raise
            ELSE Return(FALSE, body.probability)

\* A client that takes a body with an error field as a result.
AfterErrorBodyAccept(body, storeUp) == Accept(body, storeUp)

\* Lines 31-33: "error" in result: print, continue.
AfterErrorBody(body, storeUp) == Continue

\* Lines 26-47: one pass of the loop body on outcome o of requests.post.
\* KeyError and the Redis error are no RequestException: they leave the
\* function.
AttemptResult(o, storeUp) ==
  IF o.kind = "timeout" THEN AfterTimeout
  ELSE IF o.kind = "connection_error" THEN AfterRequestException
  ELSE IF raise_for_status(o.status) THEN AfterRequestException
  ELSE IF "error" \in DOMAIN o.body THEN AfterErrorBody(o.body, storeUp)
  ELSE Accept(o.body, storeUp)

\* A store write that keeps one decimal of the probability.
LocalSetRounded(store, h, p) ==
  [store EXCEPT ![h] = to_bytes((p \div 100000000) * 100000000)]

\* Line 36: rdb.set(image_hash, result["probability"]).
LocalSet(store, h, p) == [store EXCEPT ![h] = to_bytes(p)]

\* The inputs of one call.
InitClient ==
  /\ cimg \in Images
  /\ max_retries \in 0..MaxRetries
  /\ script \in [1..max_retries -> BrokerOutcomes]
  /\ readUp \in BOOLEAN
  /\ writeUp \in BOOLEAN
  /\ local_rdb0 \in
       { [h \in Fingerprints |-> None],
         [h \in Fingerprints |->
            IF h = hash_image_bytes(cimg) THEN to_bytes(450000000) ELSE None] }
  /\ local_rdb = local_rdb0
  /\ cpc = "start"
  /\ attempt = 0
  /\ posts = 0
  /\ cret = 0

\* A client that never takes its local Redis' answer as a hit.
LocalCacheHitNever(cached) == FALSE

\* Line 19: `if cached:`.
LocalCacheHit(cached) == Truthy(cached)

\* Lines 15-21: hash, GET, return a hit. A Redis error here leaves the function.
ClientLookup ==
  /\ cpc = "start"
  /\ LET cached == local_rdb[hash_image_bytes(cimg)] IN
       IF ~readUp
       THEN /\ cpc' = "raised"
            /\ UNCHANGED <<attempt, cret>>
       ELSE IF LocalCacheHit(cached)
       THEN /\ cpc' = "returned"
            /\ cret' = float(cached)
            /\ UNCHANGED attempt
       ELSE /\ cpc' = "loop"
            /\ attempt' = 1
            /\ UNCHANGED cret
  /\ UNCHANGED <<local_rdb, local_rdb0, cimg, max_retries, script, readUp,
                 writeUp, posts>>
  /\ UNCHANGED bvars
  /\ UNCHANGED rvars
  /\ UNCHANGED svars
  /\ UNCHANGED <<mvars, tvars>>

\* The outcome of the request the loop is about to make.
NextOutcome == AttemptResult(script[posts + 1], writeUp)

InLoop == cpc = "loop" /\ attempt <= max_retries /\ posts < Len(script)

\* A pass that ends in `continue` or falls out of the except Timeout clause.
ClientRetry ==
  /\ InLoop
  /\ NextOutcome.ctl = "continue"
  /\ posts' = posts + 1
  /\ attempt' = attempt + 1
  /\ UNCHANGED <<local_rdb, local_rdb0, cpc, cimg, max_retries, script, readUp,
                 writeUp, cret>>
  /\ UNCHANGED bvars
  /\ UNCHANGED rvars
  /\ UNCHANGED svars
  /\ UNCHANGED <<mvars, tvars>>

\* A pass that ends in `break`: line 49 returns the sentinel.
ClientAbort ==
  /\ InLoop
  /\ NextOutcome.ctl = "break"
  /\ posts' = posts + 1
  /\ cpc' = "returned"
  /\ cret' = Sentinel
  /\ UNCHANGED <<local_rdb, local_rdb0, cimg, max_retries, script, readUp,
                 writeUp, attempt>>
  /\ UNCHANGED bvars
  /\ UNCHANGED rvars
  /\ UNCHANGED svars
  /\ UNCHANGED <<mvars, tvars>>

\* A pass that reaches line 41.
ClientReturn ==
  /\ InLoop
  /\ NextOutcome.ctl = "return"
  /\ posts' = posts + 1
  /\ local_rdb' = IF NextOutcome.write
                  THEN LocalSet(local_rdb, hash_image_bytes(cimg),
                                NextOutcome.value)
                  ELSE local_rdb
  /\ cpc' = "returned"
  /\ cret' = NextOutcome.value
  /\ UNCHANGED <<local_rdb0, cimg, max_retries, script, readUp, writeUp,
                 attempt>>
  /\ UNCHANGED bvars
  /\ UNCHANGED rvars
  /\ UNCHANGED svars
  /\ UNCHANGED <<mvars, tvars>>

\* A pass in which an exception no clause catches is raised.
ClientRaise ==
  /\ InLoop
  /\ NextOutcome.ctl = "raise"
  /\ posts' = posts + 1
  /\ cpc' = "raised"
  /\ UNCHANGED <<local_rdb, local_rdb0, cimg, max_retries, script, readUp,
                 writeUp, attempt, cret>>
  /\ UNCHANGED bvars
  /\ UNCHANGED rvars
  /\ UNCHANGED svars
  /\ UNCHANGED <<mvars, tvars>>

\* Lines 25, 49: the range is used up.
ClientExhausted ==
  /\ cpc = "loop"
  /\ attempt > max_retries
  /\ cpc' = "returned"
  /\ cret' = Sentinel
  /\ UNCHANGED <<local_rdb, local_rdb0, cimg, max_retries, script, readUp,
                 writeUp, attempt, posts>>
  /\ UNCHANGED bvars
  /\ UNCHANGED rvars
  /\ UNCHANGED svars
  /\ UNCHANGED <<mvars, tvars>>

InitClientCall ==
  InitBroker /\ InitClient /\ RewardUnused /\ NoClientSets /\ MinerUnused
  /\ NoReceipts

NextClient ==
  \/ ClientLookup
  \/ ClientRetry
  \/ ClientAbort
  \/ ClientReturn
  \/ ClientRaise
  \/ ClientExhausted

SpecClient == InitClientCall /\ [][NextClient]_vars

\* ---------------- the Broker with clients that share its Cache Store
\* Lines 28-36 of predict_with_cache (miner_new.py: 60-68) in the client that
\* sent request r, once the response has arrived within its timeout: on a
\* result with from_cache false it SETs the probability under the image's
\* fingerprint. Here the store it writes is the Broker's.
ClientSet(r) ==
  /\ r \in DOMAIN resp
  /\ LET out == AttemptResult(Delivered(resp[r]), TRUE)
         h == hash_image_bytes(himg[r])
     IN /\ out.ctl = "return"
        /\ out.write
        /\ rdb' = LocalSet(rdb, h, out.value)
        /\ client_sets' = client_sets \cup {<<h, rdb'[h]>>}
        /\ <<h, rdb'[h]>> \notin client_sets
  /\ UNCHANGED peer_jobs
  /\ UNCHANGED <<job_queue, stop_event, jobs, hpc, himg, resp, loop, hook,
                 wpc, wjob, wprob, calls, fresh>>
  /\ UNCHANGED <<cvars, rvars, mvars, tvars>>

\* The uploads submitted to the second Broker process.
PeerUploads == {1}

\* Lines 62-66 in the worker of a second Broker process that shares the Cache
\* Store: its re-check for a job with upload b finds nothing and it enters
\* run_inference.
PeerRecheck(b) ==
  /\ b \notin peer_jobs
  /\ ~WorkerCacheHit(rdb[hash_image_bytes(b)])
  /\ ~run_inference(b).raised
  /\ peer_jobs' = peer_jobs \cup {b}
  /\ UNCHANGED client_sets
  /\ UNCHANGED <<bvars, cvars, rvars, mvars, tvars>>

\* Line 67 in that worker.
PeerStore(b) ==
  /\ b \in peer_jobs
  /\ rdb' = StoreSet(rdb, hash_image_bytes(b), run_inference(b).prob)
  /\ peer_jobs' = peer_jobs \ {b}
  /\ UNCHANGED client_sets
  /\ UNCHANGED <<job_queue, stop_event, jobs, hpc, himg, resp, loop, hook,
                 wpc, wjob, wprob, calls, fresh>>
  /\ UNCHANGED <<cvars, rvars, mvars, tvars>>

NextShared ==
  \/ Next
  \/ \E r \in Requests : ClientSet(r)
  \/ \E b \in PeerUploads : PeerRecheck(b)
  \/ \E b \in PeerUploads : PeerStore(b)

SpecShared == Init /\ [][NextShared]_vars

\* ------------- the Broker with a client that keeps a local Redis of its own
\* The responses the client has neither handled nor given up on.
Undelivered == DOMAIN resp \ client_seen

\* Lines 28-41 of predict_with_cache in a client whose request r was answered
\* within its timeout.
ClientReceive(r) ==
  /\ r \in Undelivered
  /\ \E out \in {AttemptResult(Delivered(resp[r]), TRUE)} :
       /\ local_rdb' = IF out.ctl = "return" /\ out.write
                       THEN LocalSet(local_rdb, hash_image_bytes(himg[r]),
                                     out.value)
                       ELSE local_rdb
       /\ client_hits' = IF out.ctl = "return" /\ ~out.write
                         THEN client_hits \cup {hash_image_bytes(himg[r])}
                         ELSE client_hits
  /\ client_seen' = client_seen \cup {r}
  /\ UNCHANGED <<local_rdb0, cpc, cimg, max_retries, script, readUp, writeUp,
                 attempt, posts, cret>>
  /\ UNCHANGED <<bvars, rvars, svars, mvars>>

\* Lines 43-44: requests.post gave up before the answer to request r came (or
\* r was another client's): the client never sees that response.
ClientMiss(r) ==
  /\ r \in Undelivered
  /\ client_seen' = client_seen \cup {r}
  /\ UNCHANGED client_hits
  /\ UNCHANGED <<bvars, cvars, rvars, svars, mvars>>

\* A step of the Broker in service. A response is on the wire, and handled or
\* given up by the client, before the Broker takes its next step: what the
\* client does with it reads and writes nothing the Broker does.
BrokerInService ==
  /\ Undelivered = {}
  /\ \/ \E r \in Requests, b \in Images : Submit(r, b)
     \/ HandlerStep
     \/ WorkerStep

NextTwoTier ==
  \/ BrokerInService
  \/ \E r \in Requests : ClientReceive(r)
  \/ \E r \in Requests : ClientMiss(r)

SpecTwoTier == Init /\ [][NextTwoTier]_vars

\* ------------------- Miner.forward_image (neurons/miner_new.py, lines 142-174;
\* neurons/miner.py, lines 105-169)
\* miner_new.py, line 163: predict_with_cache(image_bytes, timeout_sec=4,
\* max_retries=2).
MinerRetries == 2

\* The inputs of one call.
InitForward ==
  /\ fpc = "start"
  /\ handler \in {"miner", "miner_new"}
  /\ image_detector \in BOOLEAN
  /\ log_raises \in BOOLEAN
  /\ b64_ok \in BOOLEAN
  /\ synapse_image \in Images
  /\ prediction = <<>>

\* miner_new.py, lines 182, 236 (miner.py has the same function): the try
\* block of _log_sender_info encloses its whole body and the clause catches
\* Exception, so nothing raised there leaves the function.
LogEscapes(raises) == FALSE

\* Line 155 (miner.py: 118): self._log_sender_info(synapse).
LogSender ==
  /\ fpc = "start"
  /\ fpc' = IF LogEscapes(log_raises) THEN "raised" ELSE "logged"
  /\ UNCHANGED <<handler, image_detector, log_raises, b64_ok, synapse_image,
                 prediction>>
  /\ UNCHANGED <<bvars, cvars, rvars, svars, tvars>>

\* Lines 157-158, 174 (miner.py: 120-121, 169): no detector is configured; the
\* synapse is returned as it came.
SkipChallenge ==
  /\ fpc = "logged"
  /\ ~image_detector
  /\ fpc' = "returned"
  /\ UNCHANGED <<handler, image_detector, log_raises, b64_ok, synapse_image,
                 prediction>>
  /\ UNCHANGED <<bvars, cvars, rvars, svars, tvars>>

\* Lines 161-162, 166-168 (miner.py: 124-125, 160-162): base64.b64decode; what
\* it raises is caught and logged.
DecodeImage ==
  /\ fpc = "logged"
  /\ image_detector
  /\ fpc' = IF b64_ok THEN "calling" ELSE "returned"
  /\ UNCHANGED <<handler, image_detector, log_raises, b64_ok, synapse_image,
                 prediction>>
  /\ UNCHANGED <<bvars, cvars, rvars, svars, tvars>>

\* miner.py, lines 126-138, 160-162: the local model, which does what the
\* Broker's run_inference does; what it raises is caught and logged.
LocalInference ==
  /\ fpc = "calling"
  /\ handler = "miner"
  /\ \E out \in {run_inference(synapse_image)} :
       prediction' = IF out.raised THEN prediction ELSE <<out.prob>>
  /\ fpc' = "returned"
  /\ UNCHANGED <<handler, image_detector, log_raises, b64_ok, synapse_image>>
  /\ UNCHANGED <<bvars, cvars, rvars, svars, tvars>>

\* miner_new.py, line 163: a step of the call of predict_with_cache.
ClientCallStep ==
  /\ fpc = "calling"
  /\ handler = "miner_new"
  /\ NextClient

\* miner_new.py, lines 163, 166-168: predict_with_cache has returned and its
\* value is assigned, or it has raised and the exception is caught and logged.
TakeResult ==
  /\ fpc = "calling"
  /\ handler = "miner_new"
  /\ cpc \in {"returned", "raised"}
  /\ prediction' = IF cpc = "returned" THEN <<cret>> ELSE prediction
  /\ fpc' = "returned"
  /\ UNCHANGED <<handler, image_detector, log_raises, b64_ok, synapse_image>>
  /\ UNCHANGED <<bvars, cvars, rvars, svars, tvars>>

\* miner.py runs its own model; miner_new.py calls the client with the decoded
\* bytes.
InitMinerCall ==
  /\ InitBroker /\ RewardUnused /\ NoClientSets /\ NoReceipts
  /\ InitForward
  /\ \/ handler = "miner" /\ ClientUnused
     \/ /\ handler = "miner_new"
        /\ InitClient
        /\ cimg = synapse_image
        /\ max_retries = MinerRetries

NextMiner ==
  \/ LogSender
  \/ SkipChallenge
  \/ DecodeImage
  \/ LocalInference
  \/ ClientCallStep
  \/ TakeResult

SpecMiner == InitMinerCall /\ [][NextMiner]_vars

\* ------------------------ get_rewards (natix/validator/reward.py, lines 39-98)
\* Predictions are in hundredths (100 is 1.0), labels are the classes 0 and 1,
\* metrics are in thousandths and rewards in two-thousandths, so that
\* 0.5 * mcc + 0.5 * accuracy is the sum of the two metrics.

\* Line 70: the prediction -1 of a miner that did not answer.
NoResponse == -100

\* The predictions the miners of a batch send: none, below 0, wrong or right
\* inside [0, 1], above 1.
Predictions == {NoResponse, -50, 20, 90, 150}
Labels == {0, 1}

\* Lines 81, 82: the windows of the two metrics.
LongWindow == 100
ShortWindow == 10

\* A penalty that lets every prediction pass.
compute_penalty_none(y_pred) == 1

\* Lines 25-36.
compute_penalty(y_pred) ==
  LET bad == (y_pred < 0) \/ (y_pred > 100) IN
    IF bad THEN 0 ELSE 1

\* ---- the performance tracker: the class is defined outside these sources.
RECURSIVE IsqrtIn(_, _, _)
\* The largest s in lo..hi with s * s <= n.
IsqrtIn(n, lo, hi) ==
  IF lo = hi THEN lo
  ELSE LET mid == (lo + hi + 1) \div 2 IN
         IF mid * mid <= n THEN IsqrtIn(n, mid, hi) ELSE IsqrtIn(n, lo, mid - 1)

\* The last `window` observations of a history.
LastOf(h, window) ==
  IF Len(h) <= window THEN h ELSE SubSeq(h, Len(h) - window + 1, Len(h))

\* The class a recorded prediction counts as.
Binarise(pred) == IF pred > 50 THEN 1 ELSE 0

\* How many observations of h predict class p under label l.
CountOf(h, p, l) ==
  Cardinality({i \in 1..Len(h) : Binarise(h[i][1]) = p /\ h[i][2] = l})

\* Accuracy in thousandths; 0 over an empty window.
AccuracyOf(h) ==
  IF Len(h) = 0 THEN 0
  ELSE (1000 * (CountOf(h, 1, 1) + CountOf(h, 0, 0))) \div Len(h)

\* The Matthews correlation coefficient in thousandths, rounded towards 0;
\* 0 where it is undefined.
MccOf(h) ==
  LET tp == CountOf(h, 1, 1)
      tn == CountOf(h, 0, 0)
      fp == CountOf(h, 1, 0)
      fn == CountOf(h, 0, 1)
      num == tp * tn - fp * fn
      den == (tp + fp) * (tp + fn) * (tn + fp) * (tn + fn)
  IN IF den = 0 THEN 0
     ELSE LET mag == IsqrtIn((1000000 * num * num) \div den, 0, 1000)
          IN IF num < 0 THEN 0 - mag ELSE mag

\* tracker.get_metrics(uid, window=...).
get_metrics(t, uid, window) ==
  LET h == LastOf(t.history[uid], window) IN
    [mcc |-> MccOf(h), accuracy |-> AccuracyOf(h)]

\* d[k] = v on a dict d.
SetKey(d, k, v) == [x \in DOMAIN d \cup {k} |-> IF x = k THEN v ELSE d[x]]

\* tracker.reset_miner_history(uid, miner_hotkey).
reset_miner_history(t, uid, miner_hotkey) ==
  [t EXCEPT !.history[uid] = <<>>,
            !.miner_hotkeys = SetKey(@, uid, miner_hotkey)]

\* tracker.update(uid, pred_prob, label, miner_hotkey): the history keeps its
\* last LongWindow observations, oldest dropped first.
update(t, uid, pred_prob, lbl, miner_hotkey) ==
  [t EXCEPT
     !.history[uid] = LastOf(Append(@, <<pred_prob, lbl>>), LongWindow),
     !.miner_hotkeys = SetKey(@, uid, miner_hotkey)]

\* ---- get_rewards
\* The calls of one pass of the loop that can raise: axon.hotkey (line 73),
\* reset_miner_history (77), update (79), get_metrics (81-82).
FaultKinds == {"hotkey", "reset", "update", "metrics"}

\* How one pass of the loop ends: the tracker, the entry appended to
\* miner_rewards and to miner_metrics (a dict that is empty or holds the
\* metrics under "image": <<>> or <<m>>), the local metrics_100 (<<>> while
\* unbound), whether the
\* except clause ran, and whether an exception leaves the function.
Pass(t, reward, metrics, m100, exc, out) ==
  [tracker |-> t, reward |-> reward, metrics |-> metrics,
   metrics_100 |-> m100, exc |-> exc, raised |-> out]

\* An except clause that catches only the error of a missing attribute.
CaughtLookupOnly(kind) == kind = "hotkey"

\* Line 89: `except Exception` catches whatever a pass raises.
Caught(kind) == TRUE

\* Lines 89-96 when the try block raised before line 86: nothing is in
\* miner_modality_rewards, so .get yields 0.0, and the metrics dict is empty.
OnException(t, m100, kind) ==
  Pass(t, 0, None, m100, TRUE, ~Caught(kind))

\* A reset whenever the UID is tracked.
HotkeyChangedAlways(t, uid, miner_hotkey) == uid \in DOMAIN t.miner_hotkeys

\* Line 75: uid in tracked_hotkeys and tracked_hotkeys[uid] != miner_hotkey.
HotkeyChanged(t, uid, miner_hotkey) ==
  uid \in DOMAIN t.miner_hotkeys /\ t.miner_hotkeys[uid] /= miner_hotkey

\* A loop that scores -1 like any other prediction.
IsNoResponseNever(pred_prob) == FALSE

\* Line 70: pred_prob == -1.
IsNoResponse(pred_prob) == pred_prob = NoResponse

\* A reward whose two metrics are read over the long window.
RewardOfOneWindow(t, uid, pred_prob) ==
  LET m_100 == get_metrics(t, uid, LongWindow)
  IN (m_100.mcc + m_100.accuracy) * compute_penalty(pred_prob)

\* Lines 81-84: the two metrics of the updated tracker, combined and
\* multiplied by the penalty.
RewardOf(t, uid, pred_prob) ==
  LET m_100 == get_metrics(t, uid, LongWindow)
      m_10 == get_metrics(t, uid, ShortWindow)
  IN (m_100.mcc + m_10.accuracy) * compute_penalty(pred_prob)

\* Lines 64-96: one pass of the loop, for (axon, uid, pred_prob); `fault` is
\* the call that raises in this pass, if the pass makes it.
ScoreOne(t, m100, axon, uid, pred_prob, lbl, fault) ==
  IF IsNoResponse(pred_prob)
  THEN \* lines 71, 86; line 87 reads metrics_100: a NameError while it is
       \* unbound, after 0.0 has been stored at line 86.
       IF m100 = None
       THEN Pass(t, 0, None, m100, TRUE, ~Caught("name"))
       ELSE Pass(t, 0, m100, m100, FALSE, FALSE)
  ELSE IF fault = "hotkey" THEN OnException(t, m100, fault)
  ELSE IF HotkeyChanged(t, uid, axon) /\ fault = "reset"
       THEN OnException(t, m100, fault)
  ELSE LET t1 == IF HotkeyChanged(t, uid, axon)
                 THEN reset_miner_history(t, uid, axon) ELSE t
       IN IF fault = "update" THEN OnException(t1, m100, fault)
          ELSE LET t2 == update(t1, uid, pred_prob, lbl, axon)
               IN IF fault = "metrics" THEN OnException(t2, m100, fault)
                  ELSE LET m_100 == get_metrics(t2, uid, LongWindow)
                           reward == RewardOf(t2, uid, pred_prob)
                       IN Pass(t2, reward, <<m_100>>, <<m_100>>, FALSE, FALSE)

\* zip(axons, uids, responses) stops with the shortest of the three.
Min(a, b) == IF a < b THEN a ELSE b
ZipLen == Min(len_axons, Min(len_uids, len_responses))

\* Trackers a call can meet: no miner known; miner 7 known under "A" with a
\* right record; miner 7 under "A" with a wrong record and miner 8 under "B";
\* miner 8 under "A" with a record longer than the short window: two wrong
\* observations, then nine right ones.
LongRecord ==
  [i \in 1..11 |-> IF i = 1 THEN <<90, 0>>
                   ELSE IF i = 2 THEN <<20, 1>>
                   ELSE IF i % 2 = 1 THEN <<90, 1>> ELSE <<20, 0>>]

Trackers ==
  { EmptyTracker,
    [miner_hotkeys |-> (7 :> "A"),
     history |-> [u \in Uids |->
                    IF u = 7 THEN <<<<90, 1>>, <<20, 0>>>> ELSE <<>>]],
    [miner_hotkeys |-> (7 :> "A") @@ (8 :> "B"),
     history |-> [u \in Uids |->
                    IF u = 7 THEN <<<<90, 0>>, <<20, 1>>>> ELSE <<<<90, 1>>>>]],
    [miner_hotkeys |-> (8 :> "A"),
     history |-> [u \in Uids |->
                    IF u = 8 THEN LongRecord ELSE <<>>]] }

\* The inputs of one call: the tracker, the label, the lengths of the three
\* sequences, and the pass in which a call raises. The elements are drawn as
\* the loop takes them.
InitReward ==
  /\ tracker0 \in Trackers
  /\ tracker = tracker0
  /\ gpc = "idle"
  /\ label \in Labels
  /\ len_responses \in 0..MaxBatch
  /\ len_uids \in 0..MaxBatch
  /\ len_axons \in 0..MaxBatch
  /\ \/ faultAt = 0 /\ faultKind = "none"
     \/ faultAt \in 1..MaxBatch /\ faultKind \in FaultKinds
  /\ responses = <<>>
  /\ uids = <<>>
  /\ axons = <<>>
  /\ metrics_100 = None
  /\ miner_rewards = <<>>
  /\ miner_metrics = <<>>
  /\ miner_excs = <<>>

\* Lines 61-62: the call starts with empty lists.
CallGetRewards ==
  /\ gpc = "idle"
  /\ gpc' = "loop"
  /\ UNCHANGED <<tracker, tracker0, label, len_responses, len_uids, len_axons,
                 responses, uids, axons, faultAt, faultKind, metrics_100,
                 miner_rewards, miner_metrics, miner_excs>>
  /\ UNCHANGED <<bvars, cvars, svars, mvars, tvars>>

\* Lines 63-96: one pass of the loop; after the last pass, line 98 returns.
ScoreMiner ==
  /\ gpc = "loop"
  /\ Len(miner_rewards) < ZipLen
  /\ \E axon \in Hotkeys, uid \in Uids, pred_prob \in Predictions :
       LET i == Len(miner_rewards) + 1
           fault == IF faultAt = i THEN faultKind ELSE "none"
       IN \E out \in {ScoreOne(tracker, metrics_100, axon, uid, pred_prob,
                                label, fault)} :
          /\ axons' = Append(axons, axon)
          /\ uids' = Append(uids, uid)
          /\ responses' = Append(responses, pred_prob)
          /\ tracker' = out.tracker
          /\ metrics_100' = out.metrics_100
          /\ miner_excs' = Append(miner_excs, out.exc)
          /\ IF out.raised
             THEN /\ gpc' = "raised"
                  /\ UNCHANGED <<miner_rewards, miner_metrics>>
             ELSE /\ gpc' = IF i = ZipLen THEN "returned" ELSE "loop"
                  /\ miner_rewards' = Append(miner_rewards, out.reward)
                  /\ miner_metrics' = Append(miner_metrics, out.metrics)
  /\ UNCHANGED <<tracker0, label, len_responses, len_uids, len_axons,
                 faultAt, faultKind>>
  /\ UNCHANGED <<bvars, cvars, svars, mvars, tvars>>

\* Lines 63, 98: the zip is empty and the empty lists are returned.
ReturnRewards ==
  /\ gpc = "loop"
  /\ ZipLen = 0
  /\ gpc' = "returned"
  /\ UNCHANGED <<tracker, tracker0, label, len_responses, len_uids, len_axons,
                 responses, uids, axons, faultAt, faultKind, metrics_100,
                 miner_rewards, miner_metrics, miner_excs>>
  /\ UNCHANGED <<bvars, cvars, svars, mvars, tvars>>

InitRewardCall ==
  InitBroker /\ ClientUnused /\ InitReward /\ NoClientSets /\ MinerUnused
  /\ NoReceipts

NextReward ==
  \/ CallGetRewards
  \/ ScoreMiner
  \/ ReturnRewards

SpecReward == InitRewardCall /\ [][NextReward]_vars

\* ------------------------------------------------------- derived notions
\* The jobs of fingerprint h that are enqueued or being processed and not yet
\* signalled.
InFlight(h) ==
  {j \in DOMAIN jobs : jobs[j].image_hash = h /\ ~jobs[j].result_event}

\* The workers inside run_inference.
Inferring == {w \in Workers : wpc[w] = "infer"}

Answered(r) == r \in DOMAIN resp
IsFresh(x) == x.status = 200 /\ ~x.body.from_cache
IsHit(x) == x.status = 200 /\ x.body.from_cache
TimedOut(r) == Answered(r) /\ resp[r] = TimeoutResponse
Cached(r) == himg[r] \in Images /\ Truthy(rdb[hash_image_bytes(himg[r])])

\* ------------------------------------------------------------------ C1
\* C1: whatever the interleaving of handlers and worker, run_inference is
\* invoked at most twice for one upload, and when all NumRequests submissions
\* carry the same upload it is invoked fewer than NumRequests times.
C1_SingleFlight ==
  \A b \in Images :
    /\ calls[b] <= 2
    /\ (\A r \in Requests : himg[r] = b) => calls[b] < NumRequests

\* All submissions carried upload 1, at least two of them missed the cache and
\* enqueued a job, all were answered, and inference ran once.
C1_Witness ==
  /\ \A r \in Requests : himg[r] = 1 /\ Answered(r)
  /\ Cardinality(DOMAIN jobs) >= 2
  /\ calls[1] = 1

\* ------------------------------------------------------------------ C2
\* C2 as stated: no fingerprint ever has more than two jobs in flight (one job,
\* plus at most one duplicate); read here in the states where the worker is
\* alive and inside run_inference.
C2_AtMostOneDuplicateJob ==
  Inferring /= {} =>
    \A h \in Fingerprints : Cardinality(InFlight(h)) <= 2

\* C2 amended: among the jobs in flight for one fingerprint at most one is a
\* job the worker ran inference for, and inference is never run a second time
\* for a fingerprint; the jobs in flight for it are as many as the submissions
\* that missed the cache.
C2_AtMostOneInferencePerFingerprint ==
  \A h \in Fingerprints :
    /\ Cardinality(InFlight(h) \cap fresh) <= 1
    /\ \A b \in Images : hash_image_bytes(b) = h => calls[b] <= 1

\* Three jobs of one fingerprint in flight at once, one of them being inferred.
C2_Witness ==
  \E h \in Fingerprints :
    /\ Cardinality(InFlight(h)) >= 3
    /\ Cardinality(InFlight(h) \cap fresh) = 1
    /\ \A w \in Workers : wpc[w] /= "crashed"

\* ------------------------------------------------------------------ C3
\* C3: in every reachable state at most one call of run_inference is in
\* progress, however many handlers have submitted.
C3_OneInferenceAtATime == Cardinality(Inferring) <= 1

\* An inference is in progress while another job waits in the queue and a
\* third request is pending.
C3_Witness ==
  /\ Inferring /= {}
  /\ job_queue /= <<>>
  /\ \E r \in Requests : hpc[r] = "pending"

\* ------------------------------------------------------------------ C4
\* C4: a submission of a decodable upload that was answered with the 504
\* timeout is, unless the Broker is shut down, eventually followed by a Cache
\* Store entry for its fingerprint (its job is not cancelled and the worker
\* gets to it).
C4_TimedOutJobIsStillCached ==
  \A r \in Requests :
    [](( TimedOut(r) /\ himg[r] \notin Undecodable )
         => <>(stop_event \/ Cached(r)))

\* ------------------------------------------------------------------ C5
\* C5: when a response is produced that is fresh (from_cache false,
\* probability p), the Cache Store holds fingerprint -> p in that state; and a
\* response produced for an upload that was answered fresh with p before is
\* the cache hit {from_cache: true, probability: p}.
C5_FreshIsCachedAndServedAgain ==
  [][ \A r \in Requests :
        (~Answered(r) /\ r \in DOMAIN resp') =>
          /\ IsFresh(resp'[r]) =>
               rdb'[hash_image_bytes(himg[r])] =
                 to_bytes(resp'[r].body.probability)
          /\ \A q \in DOMAIN resp :
               (himg[q] = himg[r] /\ IsFresh(resp[q])) =>
                 resp'[r] = HitResponse(resp[q].body.probability) ]_vars

\* One request was answered fresh and another, for the same upload, from the
\* cache with the same probability.
C5_Witness ==
  \E q \in DOMAIN resp, r \in DOMAIN resp :
    /\ q /= r
    /\ himg[q] = himg[r]
    /\ IsFresh(resp[q])
    /\ IsHit(resp[r])
    /\ resp[r].body.probability = resp[q].body.probability

\* ------------------------------------------- derived notions, client side
\* The call found no entry for its fingerprint in the local Redis.
LocalMiss == readUp /\ ~Truthy(local_rdb0[hash_image_bytes(cimg)])

Finished == cpc \in {"returned", "raised"}

IsTimeout(o) == o.kind = "timeout"
IsTransportFailure(o) == o.kind = "connection_error"
IsErrorBody(o) ==
  o.kind = "response" /\ ~raise_for_status(o.status) /\ "error" \in DOMAIN o.body
\* A successful response: a 2xx with from_cache and probability and no error.
IsSuccess(o) ==
  /\ o.kind = "response"
  /\ ~raise_for_status(o.status)
  /\ "error" \notin DOMAIN o.body
  /\ {"from_cache", "probability"} \subseteq DOMAIN o.body
\* The outcomes after which the loop goes on to the next attempt.
Retryable(o) == IsTimeout(o) \/ IsErrorBody(o)

\* ------------------------------------------------------------------ C6
\* C6: predict_with_cache never propagates an exception to its caller,
\* whatever the Broker answers and whatever the local Redis does.
C6_NeverFailsOutward == cpc /= "raised"

\* ------------------------------------------------------------------ C7
\* C7: on a local cache miss, if the first k requests time out (k <
\* max_retries) and request k+1 gets a successful response, the finished call
\* has made exactly k+1 requests and returned that response's probability.
C7_TimeoutsThenSuccess ==
  \A k \in 0..(max_retries - 1) :
    ( /\ LocalMiss
      /\ Finished
      /\ \A i \in 1..k : IsTimeout(script[i])
      /\ IsSuccess(script[k + 1]) )
    => ( /\ cpc = "returned"
         /\ posts = k + 1
         /\ cret = script[k + 1].body.probability )

\* ------------------------------------------------------------------ C8
\* C8: on a local cache miss, once attempt k has met a transport failure that
\* is no timeout (the attempts before it having been retried), the call has
\* returned the sentinel, made exactly k requests and left the local Redis as
\* it was.
C8_TransportFailureAborts ==
  \A k \in 1..max_retries :
    ( /\ LocalMiss
      /\ \A i \in 1..(k - 1) : Retryable(script[i])
      /\ IsTransportFailure(script[k])
      /\ posts >= k )
    => ( /\ cpc = "returned"
         /\ cret = Sentinel
         /\ posts = k
         /\ local_rdb = local_rdb0 )

\* Two attempts left unused: a timeout, then a connection failure, with
\* max_retries = 3.
C8_Witness ==
  /\ LocalMiss
  /\ max_retries = 3
  /\ IsTimeout(script[1])
  /\ IsTransportFailure(script[2])
  /\ cpc = "returned"
  /\ cret = Sentinel
  /\ posts = 2

\* ------------------------------------------------------------------ C9
\* C9: on a local cache miss, a Broker answer 504 {"error": "Inference
\* timeout"} consumes one attempt and is retried: when the first k answers are
\* that 504, the finished call has made at least k+1 requests, or all
\* max_retries of them.
C9_BrokerTimeoutIsRetried ==
  \A k \in 1..max_retries :
    ( /\ LocalMiss
      /\ Finished
      /\ \A i \in 1..k : script[i] = Delivered(TimeoutResponse) )
    => posts >= (IF k < max_retries THEN k + 1 ELSE k)

\* ------------------------------------------------------------------ C10
\* C10: on a local cache miss, when attempt k gets a response with a
\* successful status whose body carries an error field, then right after that
\* attempt the local Redis is unwritten and the call is either in the loop at
\* attempt k+1 or, k being the last attempt, has returned the sentinel; and the
\* finished call has made request k+1 unless k was the last attempt.
C10_ErrorBodyConsumesOneAttempt ==
  \A k \in 1..max_retries :
    ( /\ LocalMiss
      /\ \A i \in 1..(k - 1) : Retryable(script[i])
      /\ IsErrorBody(script[k]) )
    => ( /\ posts = k =>
              /\ local_rdb = local_rdb0
              /\ \/ cpc = "loop" /\ attempt = k + 1
                 \/ k = max_retries /\ cpc = "returned" /\ cret = Sentinel
         /\ Finished => posts >= (IF k < max_retries THEN k + 1 ELSE k) )

\* An error body on the first attempt, then a second request, which was the
\* last and carried an error body too: the sentinel is returned.
C10_Witness ==
  /\ LocalMiss
  /\ max_retries = 2
  /\ IsErrorBody(script[1])
  /\ IsErrorBody(script[2])
  /\ posts = 2
  /\ cpc = "returned"
  /\ cret = Sentinel
  /\ local_rdb = local_rdb0

\* ------------------------------------------------------------------ C11
\* The first n outcomes of the script hold no successful response.
NoSuccessIn(n) == \A i \in 1..n : ~IsSuccess(script[i])

\* C11: on a local cache miss the finished call has made at most max_retries
\* requests, none of them after a successful response, and it has returned
\* the sentinel exactly when no request it made got a successful response.
C11_SentinelIffNoSuccess ==
  (LocalMiss /\ Finished) =>
    /\ posts <= max_retries
    /\ NoSuccessIn(posts - 1)
    /\ (cpc = "returned" /\ cret = Sentinel) <=> NoSuccessIn(posts)

\* ------------------------------------------------------------------ C12
\* The local Redis answered the GET with an entry for the image's fingerprint.
LocalHit == readUp /\ Truthy(local_rdb0[hash_image_bytes(cimg)])

\* C12: on a local cache hit the call, once past its lookup, has returned the
\* cached value, made no request and left the local Redis as it was.
C12_LocalHitAnswersAlone ==
  (LocalHit /\ cpc /= "start") =>
    /\ cpc = "returned"
    /\ cret = float(local_rdb0[hash_image_bytes(cimg)])
    /\ posts = 0
    /\ local_rdb = local_rdb0

\* A call with retries allowed and a Broker ready to answer fresh returned the
\* local entry.
C12_Witness ==
  /\ LocalHit
  /\ max_retries = 2
  /\ script[1] = Delivered(FreshResponse(150000000))
  /\ cpc = "returned"
  /\ cret = 450000000
  /\ posts = 0

\* ------------------------------------------------------------------ C13
\* The last request made got a successful response with from_cache false, and
\* the local Redis accepts writes.
FreshReceived ==
  /\ LocalMiss
  /\ posts >= 1
  /\ IsSuccess(script[posts])
  /\ ~script[posts].body.from_cache
  /\ writeUp

\* C13: in every state of a call the local Redis is what it was before the
\* call, except that, once a successful response with from_cache false has
\* been received, the image's fingerprint holds that response's probability,
\* which is the value returned. A hit, a failed attempt, a response with
\* from_cache true and the sentinel leave it as it was.
C13_LocalWriteIffFresh ==
  IF FreshReceived
  THEN /\ cpc = "returned"
       /\ cret = script[posts].body.probability
       /\ local_rdb = [local_rdb0 EXCEPT
                         ![hash_image_bytes(cimg)] = to_bytes(cret)]
  ELSE local_rdb = local_rdb0

\* A fresh answer after a timeout was written; the other fingerprint was not.
C13_Witness ==
  /\ max_retries = 3
  /\ IsTimeout(script[1])
  /\ FreshReceived
  /\ posts = 2
  /\ local_rdb[hash_image_bytes(cimg)] = to_bytes(150000000)
  /\ \E h \in Fingerprints : local_rdb[h] = None
\* ------------------------------------------- derived notions, reward side
\* The passes the loop has completed.
Scored == 1..Len(miner_rewards)

OutOfRange(p) == p < 0 \/ p > 100

\* The reward get_rewards computes from a history: 0.5 * mcc over the long
\* window + 0.5 * accuracy over the short one, in two-thousandths.
RewardFrom(h) == MccOf(LastOf(h, LongWindow)) + AccuracyOf(LastOf(h, ShortWindow))

RECURSIVE RunFrom(_, _, _, _)
\* The rewards of passes i, i+1, ... over the inputs taken, from tracker t and
\* local m100, when the call of kind faultKind raises in pass fAt (0: in none).
RunFrom(t, m100, i, fAt) ==
  IF i > Len(responses) THEN <<>>
  ELSE LET out == ScoreOne(t, m100, axons[i], uids[i], responses[i], label,
                           IF fAt = i THEN faultKind ELSE "none")
       IN <<out.reward>> \o RunFrom(out.tracker, out.metrics_100, i + 1, fAt)

\* ------------------------------------------------------------------ C14
\* C14: whatever the tracker holds and whatever the label, every reward
\* get_rewards has appended for a prediction below 0 (the no-response -1
\* among them) or above 1 is exactly 0.
C14_InvalidPredictionEarnsZero ==
  \A i \in Scored : OutOfRange(responses[i]) => miner_rewards[i] = 0

\* A miner with a right record sent 1.5, its metrics after the update were
\* positive and its reward is 0; the next miner sent -1 and got 0.
C14_Witness ==
  /\ gpc = "returned"
  /\ responses = <<150, NoResponse>>
  /\ miner_rewards = <<0, 0>>
  /\ miner_metrics[1] /= <<>>
  /\ miner_metrics[1][1].mcc > 0
  /\ miner_metrics[1][1].accuracy > 0

\* ------------------------------------------------------------------ C15
\* C15: in a pass that scores a prediction other than -1 and raises nothing,
\* if the tracker knew the UID under another hotkey, the UID's history after
\* the pass is the new observation alone and the reward is the one computed
\* from that one-observation window; if the tracker knew the UID under the
\* same hotkey or not at all, the history is the old one with the new
\* observation appended.
C15_ResetOnHotkeyChange ==
  [][ ( /\ gpc = "loop"
        /\ Len(responses') = Len(responses) + 1
        /\ responses'[Len(responses')] /= NoResponse
        /\ ~miner_excs'[Len(responses')] )
      => LET i == Len(responses')
             uid == uids'[i]
             obs == <<responses'[i], label>>
             known == uid \in DOMAIN tracker.miner_hotkeys
         IN IF known /\ tracker.miner_hotkeys[uid] /= axons'[i]
            THEN /\ tracker'.history[uid] = <<obs>>
                 /\ miner_rewards'[i] =
                      RewardFrom(<<obs>>) * compute_penalty(obs[1])
            ELSE /\ tracker'.history[uid] =
                      LastOf(Append(tracker.history[uid], obs), LongWindow)
                 /\ Len(tracker'.history[uid]) = Len(tracker.history[uid]) + 1
    ]_vars

\* Miner 7, tracked under "A" with two observations, was scored under "B":
\* its history is the one new observation, under the new hotkey.
C15_Witness ==
  /\ 7 \in DOMAIN tracker0.miner_hotkeys
  /\ tracker0.miner_hotkeys[7] = "A"
  /\ Len(tracker0.history[7]) = 2
  /\ Len(miner_rewards) = 1
  /\ uids = <<7>>
  /\ axons = <<"B">>
  /\ responses = <<90>>
  /\ ~miner_excs[1]
  /\ tracker.history[7] = <<<<90, label>>>>
  /\ tracker.miner_hotkeys[7] = "B"

\* ------------------------------------------------------------------ C16
\* C16: get_rewards never raises; the reward of a pass in which an exception
\* was raised is 0; and when the call has returned, every miner with another
\* UID than the one whose pass raised has the reward it has in the same call
\* with nothing raising.
C16_FailureIsIsolated ==
  /\ gpc /= "raised"
  /\ \A i \in Scored : miner_excs[i] => miner_rewards[i] = 0
  /\ ( gpc = "returned" /\ faultAt \in Scored /\ miner_excs[faultAt] ) =>
       LET clean == RunFrom(tracker0, None, 1, 0) IN
         \A j \in Scored :
           uids[j] /= uids[faultAt] => miner_rewards[j] = clean[j]

\* The first miner's get_metrics raised after its update; the second miner,
\* with another UID and a right record, still has its positive reward.
C16_Witness ==
  /\ gpc = "returned"
  /\ faultAt = 1
  /\ faultKind = "metrics"
  /\ miner_excs = <<TRUE, FALSE>>
  /\ uids = <<8, 7>>
  /\ miner_rewards[1] = 0
  /\ miner_rewards[2] > 0
  /\ tracker.history[8] /= tracker0.history[8]

\* ------------------------------------------------------------------ C17
\* C17: the call that has returned has one reward and one metrics snapshot
\* per prediction passed in, whatever the lengths of uids and axons.
C17_OneRewardPerPrediction ==
  gpc = "returned" =>
    /\ Len(miner_rewards) = len_responses
    /\ Len(miner_metrics) = len_responses
\* ------------------------------------------------------------------ C18
\* The bytes the Cache Store holds for fingerprint h when it holds what
\* run_inference yields for the upload with that fingerprint.
Yielded(h) ==
  { to_bytes(run_inference(b).prob) :
      b \in {x \in Images : hash_image_bytes(x) = h /\ ~run_inference(x).raised} }

C19_SignalAfterResultAfterStore ==
  /\ \A w \in Workers :
       /\ wpc[w] \in {"result", "signal"} =>
            Truthy(rdb[jobs[wjob[w]].image_hash])
       /\ wpc[w] = "signal" => jobs[wjob[w]].result /= None
  /\ \A j \in DOMAIN jobs :
       jobs[j].result_event =>
         /\ jobs[j].result /= None
         /\ Truthy(rdb[jobs[j].image_hash])
  /\ \A r \in DOMAIN resp : resp[r] /= CrashResponse

\* Two jobs of one upload were signalled: one was inferred after its submitter
\* had timed out, the other was answered by the re-check and its submitter
\* was woken with the stored probability.
C19_Witness ==
  \E q \in DOMAIN jobs, r \in DOMAIN jobs :
    /\ q /= r
    /\ jobs[q].result_event /\ jobs[r].result_event
    /\ q \in fresh /\ r \notin fresh
    /\ TimedOut(q)
    /\ r \in DOMAIN resp
    /\ resp[r].status = 200
    /\ to_bytes(resp[r].body.probability) = rdb[jobs[r].image_hash]

\* ------------------------------------------------------------------ C20
\* C20: whenever a submission waits on its completion signal and a submission
\* for another fingerprint has arrived, the later one's handler can run (look
\* up the cache and go on to enqueue its job) without the earlier wait ending.
C20_LaterSubmissionNotHeldBack ==
  \A q \in Requests, r \in Requests :
    ( /\ hpc[q] = "wait"
      /\ hpc[r] = "pending"
      /\ hook = "idle"
      /\ hash_image_bytes(himg[q]) /= hash_image_bytes(himg[r]) )
    => ENABLED HandlerCheck(r)
\* ------------------------------------------------------------------ C21
\* The pass just made scored a prediction other than -1 and raised nothing.
ScoredPass ==
  /\ gpc = "loop"
  /\ Len(responses') = Len(responses) + 1
  /\ responses'[Len(responses')] /= NoResponse
  /\ ~miner_excs'[Len(responses')]

\* C21: after a pass that scores a prediction other than -1 and raises
\* nothing, the (prediction, label) pair is the newest observation of the
\* miner's history, and the reward appended is 0.5 * mcc over the last 100
\* observations + 0.5 * accuracy over the last 10 observations of that
\* history, times 1 for a prediction in [0, 1] and times 0 otherwise.
C21_RecordThenScore ==
  [][ ScoredPass =>
        LET i == Len(responses')
            h == tracker'.history[uids'[i]]
        IN /\ Len(h) >= 1
           /\ h[Len(h)] = <<responses'[i], label>>
           /\ miner_rewards'[i] =
                RewardFrom(h) * (IF OutOfRange(responses'[i]) THEN 0 ELSE 1)
    ]_vars

\* Miner 8, with eleven observations, was scored on a twelfth: the short
\* window leaves out its two wrong observations, the long one does not.
C21_Witness ==
  /\ Len(miner_rewards) = 1
  /\ uids = <<8>>
  /\ responses = <<90>>
  /\ label = 1
  /\ ~miner_excs[1]
  /\ Len(tracker.history[8]) = 12
  /\ AccuracyOf(LastOf(tracker.history[8], ShortWindow)) = 1000
  /\ AccuracyOf(LastOf(tracker.history[8], LongWindow)) < 1000
  /\ miner_rewards[1] = RewardFrom(tracker.history[8])
  /\ miner_rewards[1] > 1000

\* ------------------------------------------------------------------ C26
\* C26: a pass that scores the no-response prediction -1 leaves the tracker
\* as it was: histories and tracked hotkeys alike, whatever hotkey the axon
\* carries.
C26_NoResponseLeavesTracker ==
  [][ ( /\ gpc = "loop"
        /\ Len(responses') = Len(responses) + 1
        /\ responses'[Len(responses')] = NoResponse )
      => tracker' = tracker ]_vars

\* Miner 7, tracked under "A", sent no response under "B": its record and its
\* tracked hotkey are what they were.
C26_Witness ==
  /\ responses = <<NoResponse>>
  /\ uids = <<7>>
  /\ axons = <<"B">>
  /\ 7 \in DOMAIN tracker0.miner_hotkeys
  /\ tracker0.miner_hotkeys[7] = "A"
  /\ Len(tracker0.history[7]) = 2
  /\ Len(miner_rewards) = 1
  /\ tracker = tracker0

\* ------------------------------------------------------------------ C27
\* The newest pass scored a prediction outside [0, 1] other than -1 and raised
\* nothing.
OutOfRangePass(i) ==
  /\ i = Len(responses)
  /\ i \in Scored
  /\ OutOfRange(responses[i])
  /\ responses[i] /= NoResponse
  /\ ~miner_excs[i]

InHistory(obs, h) == \E k \in 1..Len(h) : h[k] = obs

\* C27 as stated: a prediction outside [0, 1] other than -1 gets reward 0 and
\* is not in the miner's history after its pass.
C27_OutOfRangeIsNotRecorded ==
  \A i \in Scored :
    OutOfRangePass(i) =>
      /\ miner_rewards[i] = 0
      /\ ~InHistory(<<responses[i], label>>, tracker.history[uids[i]])

\* C27 amended: a prediction outside [0, 1] other than -1 gets reward 0 and
\* is the newest observation of the miner's history after its pass.
C27_OutOfRangeIsRecorded ==
  \A i \in Scored :
    OutOfRangePass(i) =>
      LET h == tracker.history[uids[i]]
      IN /\ miner_rewards[i] = 0
         /\ Len(h) >= 1
         /\ h[Len(h)] = <<responses[i], label>>

\* Miner 7 sent 1.5 and then 0.9: the reward of the second prediction is the
\* one of a history that holds the first, not the one it has without it.
C27_Witness ==
  /\ gpc = "returned"
  /\ faultAt = 0
  /\ responses = <<150, 90>>
  /\ uids = <<7, 7>>
  /\ axons = <<"A", "A">>
  /\ Len(tracker0.history[7]) = 2
  /\ miner_rewards[1] = 0
  /\ InHistory(<<150, label>>, tracker.history[7])
  /\ miner_rewards[2] = RewardFrom(tracker.history[7])
  /\ miner_rewards[2] /= RewardFrom(Append(tracker0.history[7], <<90, label>>))

\* ------------------------------------------------------------------ C28
\* C28: the metrics snapshot appended by the newest pass is empty or holds the
\* metrics of that pass's own miner; read here for a miner that no earlier
\* pass of the batch scored.
C28_SnapshotIsOwnOrEmpty ==
  \A i \in 1..Len(miner_metrics) :
    ( /\ i = Len(responses)
      /\ \A j \in 1..(i - 1) : uids[j] /= uids[i] )
    => \/ miner_metrics[i] = <<>>
       \/ miner_metrics[i] = <<get_metrics(tracker, uids[i], LongWindow)>>
\* ------------------------------------------------------------------ C23
\* C23: the worker enters run_inference for an upload only when the Cache
\* Store holds nothing under its fingerprint and no inference was run for it
\* before, and the Cache Store changes only under a fingerprint it held
\* nothing under, by the job the worker ran inference for; so every upload is
\* inferred at most once and every fingerprint written at most once.
C23_InferAndWriteOnlyOnRecheckMiss ==
  [][ /\ \A b \in Images :
           calls'[b] /= calls[b] =>
             /\ ~Truthy(rdb[hash_image_bytes(b)])
             /\ calls[b] = 0
             /\ calls'[b] = 1
      /\ \A h \in Fingerprints :
           rdb'[h] /= rdb[h] =>
             /\ ~Truthy(rdb[h])
             /\ \E w \in Workers :
                  /\ wjob[w] \in fresh
                  /\ jobs[wjob[w]].image_hash = h
                  /\ calls[jobs[wjob[w]].image_bytes] = 1
    ]_vars

\* An upload was submitted, timed out, and was submitted again before its
\* value was stored: the second job was answered by the re-check, and one
\* inference ran for the two jobs.
C23_Witness ==
  \E q, r \in Requests :
    /\ q < r
    /\ himg[q] = himg[r]
    /\ himg[q] \in Images
    /\ TimedOut(q)
    /\ q \in fresh
    /\ r \in DOMAIN jobs
    /\ r \notin fresh
    /\ jobs[r].result_event
    /\ calls[himg[q]] = 1
    /\ Truthy(rdb[hash_image_bytes(himg[q])])

\* ------------------------------------------------------------------ C24
\* C24: the worker loop keeps running whatever run_inference does: no worker
\* thread has been ended by an exception.
C24_WorkerSurvivesRaise == \A w \in Workers : wpc[w] /= "crashed"

\* ------------------------------------------------------------------ C25
\* C25: a 200 answer carries from_cache = false exactly when the worker ran
\* inference for that request's job.
C25_FromCacheIffNotInferred ==
  \A r \in DOMAIN resp :
    resp[r].status = 200 => (resp[r].body.from_cache <=> r \notin fresh)

\* ------------------------------------------------------------------ C30
\* The worker's way through one turn of its loop once the stop event is set.
Rank(pc) ==
  CASE pc = "get" -> 0
    [] pc = "check" -> 1
    [] pc = "infer" -> 2
    [] pc = "store" -> 3
    [] pc = "result" -> 4
    [] pc = "signal" -> 5
    [] pc = "top" -> 6
    [] pc \in {"exited", "crashed"} -> 7

\* C30 as stated: once the stop event is set, no job leaves the queue.
C30_QueuedJobsNeverProcessed ==
  [][ stop_event => job_queue' = job_queue ]_vars

\* C30 amended: once the stop event is set, the worker only moves forward
\* through the turn of the loop it is in and does not begin another; the queue
\* loses at most its head, to a worker that had passed the loop test; the
\* submitters of the jobs in the queue have been answered with the timeout;
\* and the join of the shutdown hook returns.
C30_ShutdownEndsWorker ==
  /\ [][ stop_event =>
           /\ \A w \in Workers : Rank(wpc'[w]) >= Rank(wpc[w])
           /\ job_queue' /= job_queue =>
                /\ job_queue' = Tail(job_queue)
                /\ \E w \in Workers : wpc[w] = "get" /\ wpc'[w] = "check"
       ]_vars
  /\ [](stop_event => \A r \in Requests : Queued(r) => TimedOut(r))
  /\ (hook = "joining") ~> (hook = "joined")

\* The Broker was shut down during an inference with another job queued: the
\* worker finished its job and ended, the join returned, and the queued job
\* is where it was.
C30_Witness ==
  /\ hook = "joined"
  /\ \A w \in Workers : wpc[w] = "exited"
  /\ job_queue /= <<>>
  /\ \E q \in fresh : jobs[q].result_event /\ Truthy(rdb[jobs[q].image_hash])
  /\ \A r \in Requests : Queued(r) => TimedOut(r) /\ ~jobs[r].result_event
\* ------------------------------------------------------------------ C22
\* C22: forward_image returns the synapse for every request, and the synapse
\* it returns has its prediction assigned by the handler.
C22_AlwaysReturnsWithPrediction ==
  /\ fpc /= "raised"
  /\ fpc = "returned" => prediction /= <<>>

\* ------------------------------------------------------------------ C29
\* C29: every fingerprint the client's local Redis holds is held by the
\* Broker's Cache Store with the same value, and the local Redis is not
\* written under a fingerprint for which the client has obtained an answer
\* with from_cache = true.
C29_LocalCacheWithinBrokerCache ==
  /\ [](\A h \in Fingerprints :
          Truthy(local_rdb[h]) => rdb[h] = local_rdb[h])
  /\ [][ \A h \in Fingerprints :
           local_rdb'[h] /= local_rdb[h] => h \notin client_hits ]_vars

\* The client was answered from_cache = false for a job the worker's re-check
\* answered, and wrote the value: its local Redis and the Cache Store hold the
\* same bytes for the fingerprint.
C29_Witness ==
  \E q \in client_seen :
    /\ IsFresh(resp[q])
    /\ q \notin fresh
    /\ \A r \in DOMAIN resp \ {q} : ~IsFresh(resp[r])
    /\ Truthy(local_rdb[hash_image_bytes(himg[q])])
    /\ local_rdb[hash_image_bytes(himg[q])] = rdb[hash_image_bytes(himg[q])]
====
